---- MODULE Spec2Model ----
(***************************************************************************)
(* goauth: personal access tokens.  A Client (goauth.go) creates,          *)
(* validates and revokes tokens through internal/auth, which keeps the     *)
(* records in a storage.Driver (internal/storage).                         *)
(*                                                                         *)
(* Strings are sequences of atoms.  An atom is a run of characters that    *)
(* the code never looks inside: the literal "Bearer ", the separator "|",  *)
(* a decimal number, the hex text of one random buffer, its checksum.      *)
(* Times are integers; NilTime is a nil *time.Time.                        *)
(***************************************************************************)
EXTENDS Integers, Sequences, FiniteSets, Bags, TLC

\* ----------------------------------------------------------------- bounds
MaxTime == 2        \* the clock runs 0..MaxTime
MaxTokens == 1      \* successful StoreToken calls per run
MaxTouches == 1     \* last-used goroutines that may be pending at once

Procs == {"g1", "g2"}   \* goroutines calling the client concurrently

\* ------------------------------------------------------- program constants
DefaultExpireAt == 2    \* 24 * time.Hour, in clock units of 12h
NilTime == 0 - 1        \* a nil *time.Time

\* ------------------------------------------------------------------ errors
NoErr == "nil"
ErrNotFound == "token not found"
ErrTokenExpired == "token expired"
ErrTokenInvalid == "token is invalid or expired"
ErrTokenInvalidFormat == "invalid token format"
ErrEmpty == "token cannot be empty"
ErrCanceled == "context canceled"
ErrOptionsNil == "token options cannot be nil"
ErrUserId == "user ID must be positive"
ErrRevokeWrap(e) == "failed to revoke token: " \o e
ErrStorageDriverNil == "storage driver cannot be nil"
ErrNoStorage == "no storage backend configured"
ErrOptionsRequired == "options required"

\* ----------------------------------------------------------------- strings
Bearer == "Bearer "
Sep == "|"

\* strconv / fmt %d of a record id
FormatInt(n) == <<"0", "1", "2", "3", "4", "5", "6", "7", "8">>[n + 1]

\* hex.EncodeToString of the k-th buffer rand.Read produced
HexOf(k) == <<"hexA", "hexB", "hexC", "hexD", "hexE", "hexF">>[k]

\* crc32.Checksum(raw, Castagnoli) printed with %x: a function of raw alone
Crc32Hex(raw) ==
  CASE raw = "hexA" -> "crcA" [] raw = "hexB" -> "crcB" [] raw = "hexC" -> "crcC"
    [] raw = "hexD" -> "crcD" [] raw = "hexE" -> "crcE" [] OTHER -> "crcF"

\* faulty variant: strings.Cut used for CutPrefix, keeping what stands before "Bearer "
CutPrefixBearer_Before(raw) ==
  IF Len(raw) > 0 /\ Head(raw) = Bearer THEN <<>> ELSE raw

\* strings.CutPrefix(raw, "Bearer "): the rest when the prefix is there
CutPrefixBearer(raw) ==
  IF Len(raw) > 0 /\ Head(raw) = Bearer THEN Tail(raw) ELSE raw

\* strings.Split(raw, "|"): the parts between separators (one part when none)
RECURSIVE Split(_)
Split(raw) ==
  IF \A i \in 1..Len(raw) : raw[i] # Sep
  THEN <<raw>>
  ELSE LET i == CHOOSE j \in 1..Len(raw) :
                  raw[j] = Sep /\ \A k \in 1..(j - 1) : raw[k] # Sep
       IN <<SubSeq(raw, 1, i - 1)>> \o Split(SubSeq(raw, i + 1, Len(raw)))

\* strings.Join(list, ","): the list's items with "," between them
RECURSIVE Join(_)
Join(list) ==
  IF Len(list) = 0 THEN <<>>
  ELSE IF Len(list) = 1 THEN <<list[1]>>
  ELSE <<list[1], ",">> \o Join(Tail(list))

\* faulty variant: the string itself for its digest
HashToken_Plain(raw) == raw

\* utils.HashToken: the SHA-256 digest of a string, in hex.  Modelled as a
\* one-way tag: distinct strings give distinct digests, a digest is never
\* the string it was computed from.
HashToken(raw) == <<"sha256">> \o raw

\* ------------------------------------------------------------------ records
\* entity.PersonalAccessToken; NilTok is the nil pointer returned with an error
NilTok ==
  [ID |-> 0, UserId |-> 0, Token |-> <<>>, Name |-> "", Abilities |-> <<>>,
   CreatedAt |-> NilTime, ExpiresAt |-> NilTime, LastUsedAt |-> NilTime]

\* faulty variant: the comparison the wrong way round (Before for After)
After_Swapped(t, u) == t < u

\* time.Time.After: strictly later
After(t, u) == t > u

\* Go maps: insert or overwrite, delete
Put(m, k, v) == [x \in (DOMAIN m) \cup {k} |-> IF x = k THEN v ELSE m[x]]
Del(m, k) == [x \in (DOMAIN m) \ {k} |-> m[x]]

\* ------------------------------------------------------------ memoryDriver
\* tokensByID holds the record objects; tokensByHash holds pointers to them.
\* Every caller stores a record built with ID 0 (generator.go:44-51), so a
\* record object is identified by the id StoreToken gave it, and a pointer
\* is modelled as that id.  Each method runs under the driver's mutex.
\* mu is the driver's sync.RWMutex: w tells whether it is write-locked, r
\* counts its read locks.
Unlocked == [w |-> FALSE, r |-> 0]
NewMemoryDriver ==
  [tokensByHash |-> <<>>, tokensByID |-> <<>>, nextID |-> 1, mu |-> Unlocked]

\* faulty variant: the next id taken from the number of records held
StoreToken_ReuseIds(m, t) ==
  LET id == IF t.ID = 0 THEN Cardinality(DOMAIN m.tokensByID) + 1 ELSE t.ID
  IN [drv |-> [tokensByHash |-> Put(m.tokensByHash, t.Token, id),
               tokensByID |-> Put(m.tokensByID, id, [t EXCEPT !.ID = id]),
               nextID |-> m.nextID, mu |-> m.mu],
      id |-> id,
      err |-> NoErr]

StoreToken(m, t) ==
  LET id == IF t.ID = 0 THEN m.nextID ELSE t.ID
      nx == IF t.ID = 0 THEN m.nextID + 1 ELSE m.nextID
  IN [drv |-> [tokensByHash |-> Put(m.tokensByHash, t.Token, id),
               tokensByID |-> Put(m.tokensByID, id, [t EXCEPT !.ID = id]),
               nextID |-> nx, mu |-> m.mu],
      id |-> id,
      err |-> NoErr]

FindByID(m, id, t) ==
  IF id \notin DOMAIN m.tokensByID
  THEN [tok |-> NilTok, err |-> ErrNotFound]
  ELSE LET tok == m.tokensByID[id]
       IN IF tok.ExpiresAt # NilTime /\ After(t, tok.ExpiresAt)
          THEN [tok |-> NilTok, err |-> ErrTokenExpired]
          ELSE [tok |-> tok, err |-> NoErr]

FindByHash(m, hash, t) ==
  IF hash \notin DOMAIN m.tokensByHash
  THEN [tok |-> NilTok, err |-> ErrNotFound]
  ELSE LET tok == m.tokensByID[m.tokensByHash[hash]]
       IN IF tok.ExpiresAt # NilTime /\ After(t, tok.ExpiresAt)
          THEN [tok |-> NilTok, err |-> ErrTokenExpired]
          ELSE [tok |-> tok, err |-> NoErr]

\* faulty variant: a revoke that reports success and deletes nothing
RevokeToken_KeepsRecord(m, hash) ==
  IF hash \notin DOMAIN m.tokensByHash
  THEN [drv |-> m, err |-> ErrNotFound]
  ELSE [drv |-> m, err |-> NoErr]

RevokeToken(m, hash) ==
  IF hash \notin DOMAIN m.tokensByHash
  THEN [drv |-> m, err |-> ErrNotFound]
  ELSE [drv |-> [m EXCEPT !.tokensByHash = Del(m.tokensByHash, hash),
                          !.tokensByID = Del(m.tokensByID, m.tokensByHash[hash])],
        err |-> NoErr]

\* faulty variant: every record's last use set when the id is there
TouchLastUsed_EveryRecord(m, id, t) ==
  IF id \notin DOMAIN m.tokensByID
  THEN [drv |-> m, err |-> ErrNotFound]
  ELSE [drv |-> [m EXCEPT !.tokensByID =
                   [i \in DOMAIN m.tokensByID |-> [m.tokensByID[i] EXCEPT !.LastUsedAt = t]]],
        err |-> NoErr]

TouchLastUsed(m, id, t) ==
  IF id \notin DOMAIN m.tokensByID
  THEN [drv |-> m, err |-> ErrNotFound]
  ELSE [drv |-> [m EXCEPT !.tokensByID[id].LastUsedAt = t], err |-> NoErr]

\* -------------------------------------------------------------- gormDriver
\* The table personal_access_tokens as AutoMigrate makes it from the entity's
\* tags: id is the auto-increment primary key, token has an index that is
\* not unique.  rows maps id to row; seq is the last id the table gave out.
\* gorm's calls: Create inserts (a primary key already there is an error);
\* First returns the matching row of least primary key, or
\* gorm.ErrRecordNotFound; Delete and Update with no matching row return no
\* error.
ErrRecordNotFound == "record not found"
ErrDuplicateKey == "duplicated key not allowed"

NewGormDriver == [rows |-> <<>>, seq |-> 0]

GormStoreToken(g, t) ==
  LET id == IF t.ID = 0 THEN g.seq + 1 ELSE t.ID
  IN IF id \in DOMAIN g.rows
     THEN [drv |-> g, id |-> t.ID, err |-> ErrDuplicateKey]
     ELSE [drv |-> [rows |-> Put(g.rows, id, [t EXCEPT !.ID = id]),
                    seq |-> IF id > g.seq THEN id ELSE g.seq],
           id |-> id,
           err |-> NoErr]

\* db.First(&t, cond): the matching row of least id
GormFirst(g, ids) ==
  IF ids = {}
  THEN [tok |-> NilTok, err |-> ErrRecordNotFound]
  ELSE [tok |-> g.rows[CHOOSE i \in ids : \A j \in ids : i <= j], err |-> NoErr]

GormFindByID(g, id, t) ==
  LET r == GormFirst(g, {i \in DOMAIN g.rows : i = id})
  IN IF r.err # NoErr THEN r
     ELSE IF r.tok.ExpiresAt # NilTime /\ After(t, r.tok.ExpiresAt)
     THEN [tok |-> NilTok, err |-> ErrTokenExpired]
     ELSE r

GormFindByHash(g, hash, t) ==
  LET r == GormFirst(g, {i \in DOMAIN g.rows : g.rows[i].Token = hash})
  IN IF r.err # NoErr THEN r
     ELSE IF r.tok.ExpiresAt # NilTime /\ After(t, r.tok.ExpiresAt)
     THEN [tok |-> NilTok, err |-> ErrTokenExpired]
     ELSE r

GormRevokeToken(g, hash) ==
  [drv |-> [g EXCEPT !.rows =
              [i \in {j \in DOMAIN g.rows : g.rows[j].Token # hash} |-> g.rows[i]]],
   err |-> NoErr]

GormTouchLastUsed(g, id, t) ==
  [drv |-> [g EXCEPT !.rows =
              [i \in DOMAIN g.rows |->
                 IF i = id THEN [g.rows[i] EXCEPT !.LastUsedAt = t] ELSE g.rows[i]]],
   err |-> NoErr]

\* ------------------------------------------------------------------- state
VARIABLES
  now,        \* time.Now()
  configured, \* the duration NewClient was given by WithTokenExpiration
  config,     \* Client.config, the *config.Config every call shares
  drivers,    \* the memory drivers made so far; drivers[1] is Client.storage
  pc,         \* where each calling goroutine stands
  call,       \* each goroutine's arguments and locals
  last,       \* the call or goroutine that has just returned, and what it returned
  touches,    \* the last-used goroutines started and not yet run (the records they hold)
  issued,     \* history: what each successful CreateToken was given and returned
  revoked,    \* history: the digests a RevokeToken call deleted
  assigned,   \* history: <<driver, id>> for each id StoreToken assigned, in order
  db          \* the table behind a gormDriver

vars == <<now, configured, config, drivers, pc, call, last, touches, issued, revoked, assigned,
          db>>

ClientStorage == 1      \* index of Client.storage in drivers
NilStorage == 0         \* config.Storage == nil

\* ------------------------------------------------------------------ inputs
NilOptions == [isNil |-> TRUE, UserId |-> 0, Abilities |-> <<>>]
TokenOptions ==
  {NilOptions,
   [isNil |-> FALSE, UserId |-> 0, Abilities |-> <<"read:posts">>],
   [isNil |-> FALSE, UserId |-> 1, Abilities |-> <<"read:posts">>],
   [isNil |-> FALSE, UserId |-> 2, Abilities |-> <<"read:posts", "write:comments">>]}

\* WithTokenExpiration(d): zero, one clock unit
ExpireChoices == {0, 1}

Malformed == {<<"invalid-token">>, <<"1", Sep, "a", Sep, "b">>}
Unknown == {<<"1", Sep, "nonexistenttoken">>}
IssuedStrings == {i.raw : i \in issued}
RawInputs ==
  {<<>>} \cup Malformed \cup Unknown \cup
  IssuedStrings \cup {<<Bearer>> \o r : r \in IssuedStrings}

IdleCall ==
  [op |-> "none", raw |-> <<>>, opts |-> NilOptions, tok |-> NilTok, ctx |-> FALSE]

\* a returned call: ctx tells whether its context was cancelled, verr is what
\* the ValidateToken inside it returned, err and tok and str are what the
\* call returned
NoCall ==
  [op |-> "none", raw |-> <<>>, opts |-> NilOptions, tok |-> NilTok, ctx |-> FALSE,
   verr |-> NoErr, err |-> NoErr, str |-> <<>>]
Returned(c, verr, err, tok, str) ==
  [op |-> c.op, raw |-> c.raw, opts |-> c.opts, tok |-> tok, ctx |-> c.ctx,
   verr |-> verr, err |-> err, str |-> str]
\* the last-used goroutine holding tok has ended with err (which nothing receives)
Touched(tok, err) ==
  [NoCall EXCEPT !.op = "touch", !.tok = tok, !.err = err]

\* ---------------------------------------------------------------- NewClient
\* The state NewClient leaves: the default config with the options applied,
\* config.Storage not set, Client.storage a new memory driver.
Init ==
  /\ now = 0
  /\ configured \in ExpireChoices
  /\ config = [ExpireAt |-> configured, TokenPrefix |-> <<>>, Storage |-> NilStorage]
  /\ drivers = <<NewMemoryDriver>>
  /\ pc = [p \in Procs |-> "idle"]
  /\ call = [p \in Procs |-> IdleCall]
  /\ last = NoCall
  /\ touches = EmptyBag
  /\ issued = {}
  /\ revoked = {}
  /\ assigned = <<>>
  /\ db = NewGormDriver

\* ------------------------------------------------------------------ config
\* Config.ApplyDefaults, the fields read later: a zero ExpireAt becomes the
\* default.  (Its reading and writing of Storage: ValidateBegin, ValidateDefaults.)
ApplyDefaults(c) ==
  [c EXCEPT !.ExpireAt = IF c.ExpireAt = 0 THEN DefaultExpireAt ELSE c.ExpireAt]

\* goroutine p returns r
Done(p, r) ==
  /\ pc' = [pc EXCEPT ![p] = "idle"]
  /\ call' = [call EXCEPT ![p] = IdleCall]
  /\ last' = r

\* -------------------------------------------------------------- CreateToken
\* generator.generateTokenString: prefix, hex of a fresh random buffer, crc
GenerateTokenString(prefix, k) == prefix \o <<HexOf(k), Crc32Hex(HexOf(k))>>

\* the expiry generator.Create gives a record made at time t
ExpireAtOf(c, t) == IF c.ExpireAt > 0 THEN t + c.ExpireAt ELSE NilTime

\* fewer than n tokens have been created or are being created
TokensLeft(n) ==
  Cardinality(issued) + Cardinality({q \in Procs : pc[q] \in {"store", "install"}}) < n

\* faulty variant: the user id is not looked at
CreateBegin_NoUserCheck(p, opts, ctxDone) ==
  /\ last = NoCall
  /\ pc[p] = "idle"
  /\ LET c == [IdleCall EXCEPT !.op = "create", !.opts = opts, !.ctx = ctxDone]
     IN IF opts.isNil
        THEN /\ Done(p, Returned(c, NoErr, ErrOptionsNil, NilTok, <<>>))
             /\ UNCHANGED config
        ELSE IF ctxDone
        THEN /\ Done(p, Returned(c, NoErr, ErrCanceled, NilTok, <<>>))
             /\ config' = [config EXCEPT !.Storage = ClientStorage]
        ELSE /\ pc' = [pc EXCEPT ![p] = "store"]
             /\ call' = [call EXCEPT ![p] = c]
             /\ config' = [ApplyDefaults(config) EXCEPT !.Storage = ClientStorage]
             /\ UNCHANGED last
  /\ UNCHANGED <<db, now, configured, drivers, touches, issued, revoked, assigned>>

\* Client.CreateToken up to the call of gen.Create
CreateBegin(p, opts, ctxDone) ==
  /\ last = NoCall
  /\ pc[p] = "idle"
  /\ LET c == [IdleCall EXCEPT !.op = "create", !.opts = opts, !.ctx = ctxDone]
     IN IF opts.isNil
        THEN /\ Done(p, Returned(c, NoErr, ErrOptionsNil, NilTok, <<>>))
             /\ UNCHANGED config
        ELSE IF opts.UserId <= 0
        THEN /\ Done(p, Returned(c, NoErr, ErrUserId, NilTok, <<>>))
             /\ UNCHANGED config
        ELSE IF ctxDone
        THEN /\ Done(p, Returned(c, NoErr, ErrCanceled, NilTok, <<>>))
             /\ config' = [config EXCEPT !.Storage = ClientStorage]
        ELSE /\ pc' = [pc EXCEPT ![p] = "store"]
             /\ call' = [call EXCEPT ![p] = c]
             /\ config' = [ApplyDefaults(config) EXCEPT !.Storage = ClientStorage]
             /\ UNCHANGED last
  /\ UNCHANGED <<db, now, configured, drivers, touches, issued, revoked, assigned>>

\* generator.Create with the config cfg and the drivers drvs: the check that
\* a driver is configured, the record, StoreToken, the client's string
Create(p, cfg, drvs) ==
  IF cfg.Storage = NilStorage
  THEN /\ Done(p, Returned(call[p], NoErr, ErrNoStorage, NilTok, <<>>))
       /\ drivers' = drvs
       /\ UNCHANGED <<assigned, issued>>
  ELSE LET o == call[p].opts
           plainText == GenerateTokenString(cfg.TokenPrefix, Cardinality(issued) + 1)
           hashed == HashToken(plainText)
           t == [ID |-> 0, UserId |-> o.UserId, Token |-> hashed, Name |-> "",
                 Abilities |-> Join(o.Abilities), CreatedAt |-> now,
                 ExpiresAt |-> ExpireAtOf(cfg, now), LastUsedAt |-> NilTime]
           r == StoreToken(drvs[cfg.Storage], t)
           str == <<FormatInt(r.id), Sep>> \o plainText
       IN /\ drivers' = [drvs EXCEPT ![cfg.Storage] = r.drv]
          /\ assigned' = Append(assigned, <<cfg.Storage, r.id>>)
          /\ issued' = issued \cup
               {[raw |-> str, opts |-> o, CreatedAt |-> t.CreatedAt,
                 ExpiresAt |-> t.ExpiresAt]}
          /\ Done(p, Returned(call[p], NoErr, NoErr, NilTok, str))

\* gen.Create inside auth.CreateToken, the config as it is at that moment
CreateStore(p) ==
  /\ last = NoCall
  /\ pc[p] = "store"
  /\ Create(p, config, drivers)
  /\ UNCHANGED <<db, now, configured, config, touches, revoked>>

\* auth.CreateToken called with the caller's own Config (valid but for its
\* Storage): ApplyDefaults up to its reading of c.Storage
CoreCreateToken(p, opts) ==
  /\ last = NoCall
  /\ pc[p] = "idle"
  /\ LET c == [IdleCall EXCEPT !.op = "create", !.opts = opts]
     IN IF opts.isNil
        THEN /\ Done(p, Returned(c, NoErr, ErrOptionsRequired, NilTok, <<>>))
             /\ UNCHANGED config
        ELSE /\ pc' = [pc EXCEPT ![p] = IF config.Storage = NilStorage
                                        THEN "install" ELSE "store"]
             /\ call' = [call EXCEPT ![p] = c]
             /\ config' = ApplyDefaults(config)
             /\ UNCHANGED last
  /\ UNCHANGED <<db, now, configured, drivers, touches, issued, revoked, assigned>>

\* auth.CreateToken after ApplyDefaults read a nil c.Storage: the new memory
\* driver written to it (so that the DB check that follows finds a driver),
\* Validate, gen.Create
CreateInstall(p) ==
  /\ last = NoCall
  /\ pc[p] = "install"
  /\ LET cfg == [config EXCEPT !.Storage = Len(drivers) + 1]
     IN /\ config' = cfg
        /\ Create(p, cfg, Append(drivers, NewMemoryDriver))
  /\ UNCHANGED <<db, now, configured, touches, revoked>>

\* ------------------------------------------------------------ ValidateToken
\* faulty variant: the id part must be the id of the record found
ValidateFind_IdCompared(raw, m, t) ==
  LET parts == Split(CutPrefixBearer(raw))
  IN IF Len(parts) # 2
     THEN [tok |-> NilTok, err |-> ErrTokenInvalid]
     ELSE LET hashed == HashToken(parts[2])
              r == FindByHash(m, hashed, t)
          IN IF r.err # NoErr THEN r
             ELSE IF r.tok.Token # hashed \/ parts[1] # <<FormatInt(r.tok.ID)>>
             THEN [tok |-> NilTok, err |-> ErrTokenInvalid]
             ELSE r

\* auth.ValidateToken from the prefix cut to the digest comparison, against
\* the driver m that config.Storage names, at time t
ValidateFind(raw, m, t) ==
  LET parts == Split(CutPrefixBearer(raw))
  IN IF Len(parts) # 2
     THEN [tok |-> NilTok, err |-> ErrTokenInvalid]
     ELSE LET hashed == HashToken(parts[2])
              r == FindByHash(m, hashed, t)
          IN IF r.err # NoErr THEN r
             ELSE IF r.tok.Token # hashed
             THEN [tok |-> NilTok, err |-> ErrTokenInvalid]
             ELSE r

\* faulty variant: a token counts as expired from its expiry time on
ValidateExpiry_NotStrict(tok, t) ==
  IF tok.ExpiresAt # NilTime /\ t >= tok.ExpiresAt
  THEN ErrTokenExpired
  ELSE NoErr

\* auth.ValidateToken's own expiry check on the record found
ValidateExpiry(tok, t) ==
  IF tok.ExpiresAt # NilTime /\ After(t, tok.ExpiresAt)
  THEN ErrTokenExpired
  ELSE NoErr

\* auth.ValidateToken run with no clock tick between its two readings of
\* the time: what it returns
ValidateToken(raw, m, t) ==
  LET f == ValidateFind(raw, m, t)
  IN IF f.err # NoErr THEN f
     ELSE IF ValidateExpiry(f.tok, t) # NoErr
     THEN [tok |-> NilTok, err |-> ValidateExpiry(f.tok, t)]
     ELSE f

\* faulty variant: the validator's error wrapped like the driver's
RevokeInvalid_Wrapped(e) == ErrRevokeWrap(e)

\* auth.RevokeToken when its ValidateToken failed with e: what it returns
RevokeInvalid(e) == e

\* auth.RevokeToken when the driver's RevokeToken failed with e
RevokeFailed(e) == ErrRevokeWrap(e)

\* The record a goroutine holds through the pointer FindByHash returned.  No
\* field it reads later (ID, Token, ExpiresAt) ever changes; LastUsedAt, which
\* a concurrent touch may write, is left out of what it holds.
Held(tok) == [tok EXCEPT !.LastUsedAt = NilTime]

\* a validation that ends with error e (inside RevokeToken when op is revoke)
ValidateFail(p, c, e) ==
  Done(p, Returned(c, e, IF c.op = "revoke" THEN RevokeInvalid(e) ELSE e, NilTok, <<>>))

\* faulty variant: the context is not looked at
ValidateBegin_IgnoresContext(p, op, raw, ctxDone) ==
  /\ last = NoCall
  /\ pc[p] = "idle"
  /\ LET c == [IdleCall EXCEPT !.op = op, !.raw = raw, !.ctx = ctxDone]
     IN IF raw = <<>>
        THEN /\ Done(p, Returned(c, ErrEmpty, ErrEmpty, NilTok, <<>>))
             /\ UNCHANGED config
        ELSE /\ config' = ApplyDefaults(config)
             /\ pc' = [pc EXCEPT ![p] = IF config.Storage = NilStorage
                                        THEN "defaults" ELSE "lookup"]
             /\ call' = [call EXCEPT ![p] = c]
             /\ UNCHANGED last
  /\ UNCHANGED <<db, now, configured, drivers, touches, issued, revoked, assigned>>

\* Client.ValidateToken / Client.RevokeToken: the guards, then ApplyDefaults
\* up to its reading of c.Storage.  When it reads nil the goroutine has yet
\* to write the driver it makes.
ValidateBegin(p, op, raw, ctxDone) ==
  /\ last = NoCall
  /\ pc[p] = "idle"
  /\ LET c == [IdleCall EXCEPT !.op = op, !.raw = raw, !.ctx = ctxDone]
     IN IF raw = <<>>
        THEN /\ Done(p, Returned(c, ErrEmpty, ErrEmpty, NilTok, <<>>))
             /\ UNCHANGED config
        ELSE IF ctxDone
        THEN /\ Done(p, Returned(c, ErrCanceled, ErrCanceled, NilTok, <<>>))
             /\ UNCHANGED config
        ELSE /\ config' = ApplyDefaults(config)
             /\ pc' = [pc EXCEPT ![p] = IF config.Storage = NilStorage
                                        THEN "defaults" ELSE "lookup"]
             /\ call' = [call EXCEPT ![p] = c]
             /\ UNCHANGED last
  /\ UNCHANGED <<db, now, configured, drivers, touches, issued, revoked, assigned>>

\* ApplyDefaults, the write after `c.Storage == nil` was read: a new memory
\* driver
ValidateDefaults(p) ==
  /\ last = NoCall
  /\ pc[p] = "defaults"
  /\ drivers' = Append(drivers, NewMemoryDriver)
  /\ config' = [config EXCEPT !.Storage = Len(drivers) + 1]
  /\ pc' = [pc EXCEPT ![p] = "lookup"]
  /\ UNCHANGED <<db, now, configured, call, last, touches, issued, revoked, assigned>>

\* faulty variant: the last-used goroutine started as soon as the record is
\* found, before the validator's own expiry check
ValidateLookup_TouchesEarly(p) ==
  /\ last = NoCall
  /\ pc[p] = "lookup"
  /\ LET c == call[p]
         f == ValidateFind(c.raw, drivers[config.Storage], now)
     IN IF f.err # NoErr
        THEN /\ ValidateFail(p, c, f.err)
             /\ UNCHANGED touches
        ELSE /\ pc' = [pc EXCEPT ![p] = "check"]
             /\ call' = [call EXCEPT ![p] = [c EXCEPT !.tok = Held(f.tok)]]
             /\ touches' = touches (+) SetToBag({Held(f.tok)})
             /\ UNCHANGED last
  /\ UNCHANGED <<db, now, configured, config, drivers, issued, revoked, assigned>>

\* auth.ValidateToken from the prefix cut to the digest comparison, in the
\* driver cfg.Storage names when it is read for FindByHash
ValidateLookup(p) ==
  /\ last = NoCall
  /\ pc[p] = "lookup"
  /\ LET c == call[p]
         f == ValidateFind(c.raw, drivers[config.Storage], now)
     IN IF f.err # NoErr
        THEN ValidateFail(p, c, f.err)
        ELSE /\ pc' = [pc EXCEPT ![p] = "check"]
             /\ call' = [call EXCEPT ![p] = [c EXCEPT !.tok = Held(f.tok)]]
             /\ UNCHANGED last
  /\ UNCHANGED <<db, now, configured, config, drivers, touches, issued, revoked, assigned>>

\* faulty variant: TouchLastUsed called in line, its error returned to the caller
ValidateCheck_TouchInline(p) ==
  /\ last = NoCall
  /\ pc[p] = "check"
  /\ LET c == call[p]
         e == ValidateExpiry(c.tok, now)
         r == TouchLastUsed(drivers[config.Storage], c.tok.ID, now)
     IN IF e # NoErr
        THEN /\ ValidateFail(p, c, e)
             /\ UNCHANGED drivers
        ELSE /\ drivers' = [drivers EXCEPT ![config.Storage] = r.drv]
             /\ IF r.err # NoErr
                THEN ValidateFail(p, c, r.err)
                ELSE IF c.op = "revoke"
                THEN /\ pc' = [pc EXCEPT ![p] = "delete"]
                     /\ UNCHANGED <<call, last>>
                ELSE Done(p, Returned(c, NoErr, NoErr, c.tok, <<>>))
  /\ UNCHANGED <<db, now, configured, config, touches, issued, revoked, assigned>>

\* auth.ValidateToken after the lookup: the expiry check, the last-used
\* goroutine, the return.  Inside RevokeToken the delete is still to come.
ValidateCheck(p) ==
  /\ last = NoCall
  /\ pc[p] = "check"
  /\ LET c == call[p]
         e == ValidateExpiry(c.tok, now)
     IN IF e # NoErr
        THEN /\ ValidateFail(p, c, e)
             /\ UNCHANGED touches
        ELSE /\ BagCardinality(touches) < MaxTouches
             /\ touches' = touches (+) SetToBag({c.tok})
             /\ IF c.op = "revoke"
                THEN /\ pc' = [pc EXCEPT ![p] = "delete"]
                     /\ UNCHANGED <<call, last>>
                ELSE Done(p, Returned(c, NoErr, NoErr, c.tok, <<>>))
  /\ UNCHANGED <<db, now, configured, config, drivers, issued, revoked, assigned>>

\* auth.RevokeToken after a successful ValidateToken: delete by digest
RevokeDelete(p) ==
  /\ last = NoCall
  /\ pc[p] = "delete"
  /\ LET c == call[p]
         r == RevokeToken(drivers[config.Storage], c.tok.Token)
     IN /\ drivers' = [drivers EXCEPT ![config.Storage] = r.drv]
        /\ IF r.err # NoErr
           THEN /\ Done(p, Returned(c, NoErr, RevokeFailed(r.err), NilTok, <<>>))
                /\ UNCHANGED revoked
           ELSE /\ Done(p, Returned(c, NoErr, NoErr, NilTok, <<>>))
                /\ revoked' = revoked \cup {c.tok.Token}
  /\ UNCHANGED <<db, now, configured, config, touches, issued, assigned>>

\* the goroutine ValidateToken started: TouchLastUsed on config.Storage as
\* it is when the goroutine runs; its error goes nowhere
TouchRun(tok) ==
  /\ last = NoCall
  /\ BagIn(tok, touches)
  /\ LET r == TouchLastUsed(drivers[config.Storage], tok.ID, now)
     IN /\ drivers' = [drivers EXCEPT ![config.Storage] = r.drv]
        /\ last' = Touched(tok, r.err)
  /\ touches' = touches (-) SetToBag({tok})
  /\ UNCHANGED <<db, now, configured, config, pc, call, issued, revoked, assigned>>

\* ------------------------------------------------------------- GetTokenInfo
\* Client.GetTokenInfo: the guards, the split (no "Bearer " cut), then
\* FindByHash on Client.storage itself; one call of the driver, under its mutex
GetTokenInfo(p, raw, ctxDone) ==
  /\ last = NoCall
  /\ pc[p] = "idle"
  /\ LET c == [IdleCall EXCEPT !.op = "info", !.raw = raw, !.ctx = ctxDone]
         parts == Split(raw)
         r == FindByHash(drivers[ClientStorage], HashToken(parts[2]), now)
     IN IF raw = <<>>
        THEN last' = Returned(c, NoErr, ErrEmpty, NilTok, <<>>)
        ELSE IF ctxDone
        THEN last' = Returned(c, NoErr, ErrCanceled, NilTok, <<>>)
        ELSE IF Len(parts) # 2
        THEN last' = Returned(c, NoErr, ErrTokenInvalidFormat, NilTok, <<>>)
        ELSE last' = Returned(c, NoErr, r.err, r.tok, <<>>)
  /\ UNCHANGED <<db, now, configured, config, drivers, pc, call, touches, issued,
                 revoked, assigned>>

\* --------------------------------------------------------------------- time
Tick ==
  /\ last = NoCall
  /\ now < MaxTime
  /\ now' = now + 1
  /\ UNCHANGED <<db, configured, config, drivers, pc, call, last, touches, issued, revoked, assigned>>

\* the caller has its result; the next step may run
Return ==
  /\ last # NoCall
  /\ last' = NoCall
  /\ UNCHANGED <<db, now, configured, config, drivers, pc, call, touches, issued, revoked, assigned>>

TouchTokens == BagToSet(touches)

Next ==
  \/ \E p \in Procs, o \in TokenOptions, x \in BOOLEAN :
       TokensLeft(MaxTokens) /\ CreateBegin(p, o, x)
  \/ \E p \in Procs : CreateStore(p)
  \/ \E p \in Procs, op \in {"validate", "revoke"}, raw \in RawInputs, x \in BOOLEAN :
       ValidateBegin(p, op, raw, x)
  \/ \E p \in Procs : ValidateDefaults(p)
  \/ \E p \in Procs : ValidateLookup(p)
  \/ \E p \in Procs : ValidateCheck(p)
  \/ \E p \in Procs : RevokeDelete(p)
  \/ \E tok \in TouchTokens : TouchRun(tok)
  \/ Return
  \/ Tick

Spec == Init /\ [][Next]_vars

\* ------------------------------------------------- two tokens, one client
\* The client creating one token more than MaxTokens and validating what it
\* created, from two goroutines: no cancelled context, no invalid options, no
\* revocation, the clock standing still.
\* id parts a caller may put before the "|": none, the first id, others
IdParts == {<<>>, <<"1">>, <<"2">>, <<"x">>}
\* the issued strings with their id part replaced
Relabelled == {a \o <<Sep>> \o Split(r)[2] : a \in IdParts, r \in IssuedStrings}

ValidOptions == {o \in TokenOptions : ~o.isNil /\ o.UserId > 0 /\ Len(o.Abilities) = 1}

NextTwoTokens ==
  \/ \E p \in Procs, o \in ValidOptions :
       TokensLeft(MaxTokens + 1) /\ CreateBegin(p, o, FALSE)
  \/ \E p \in Procs : CreateStore(p)
  \/ \E p \in Procs, raw \in Unknown \cup IssuedStrings \cup Relabelled :
       ValidateBegin(p, "validate", raw, FALSE)
  \/ \E p \in Procs : ValidateDefaults(p)
  \/ \E p \in Procs : ValidateLookup(p)
  \/ \E p \in Procs : ValidateCheck(p)
  \/ \E tok \in TouchTokens : TouchRun(tok)
  \/ Return

SpecTwoTokens == Init /\ [][NextTwoTokens]_vars

\* ------------------------------------------- the core, no storage driver
\* auth.CreateToken, auth.ValidateToken and auth.RevokeToken given a Config
\* whose Storage the caller left nil.
NextBare ==
  \/ \E p \in Procs, o \in TokenOptions : TokensLeft(MaxTokens) /\ CoreCreateToken(p, o)
  \/ \E p \in Procs : CreateInstall(p)
  \/ \E p \in Procs : CreateStore(p)
  \/ \E p \in Procs, op \in {"validate", "revoke"}, raw \in Unknown \cup IssuedStrings :
       ValidateBegin(p, op, raw, FALSE)
  \/ \E p \in Procs : ValidateDefaults(p)
  \/ \E p \in Procs : ValidateLookup(p)
  \/ \E p \in Procs : ValidateCheck(p)
  \/ \E p \in Procs : RevokeDelete(p)
  \/ \E tok \in TouchTokens : TouchRun(tok)
  \/ Return
  \/ Tick

SpecBare == Init /\ [][NextBare]_vars

\* ------------------------------------------------ one token, and its info
\* The client creating, validating and looking up one token from two
\* goroutines while the clock runs: no invalid options, no revocation.
NextInfo ==
  \/ \E p \in Procs, o \in ValidOptions :
       TokensLeft(MaxTokens) /\ CreateBegin(p, o, FALSE)
  \/ \E p \in Procs : CreateStore(p)
  \/ \E p \in Procs, raw \in Unknown \cup IssuedStrings :
       ValidateBegin(p, "validate", raw, FALSE)
  \/ \E p \in Procs : ValidateDefaults(p)
  \/ \E p \in Procs : ValidateLookup(p)
  \/ \E p \in Procs : ValidateCheck(p)
  \/ \E tok \in TouchTokens : TouchRun(tok)
  \/ \E p \in Procs, raw \in RawInputs, x \in BOOLEAN : GetTokenInfo(p, raw, x)
  \/ Return
  \/ Tick

SpecInfo == Init /\ [][NextInfo]_vars

\* ------------------------------------------------------ the core, any prefix
\* auth.CreateToken, auth.ValidateToken and auth.RevokeToken given a Config of
\* the caller's own: its TokenPrefix any string, its Storage set (ApplyDefaults
\* has nothing to install).
Prefixes == {<<>>, <<"pk_">>, <<"pk", Sep>>}

InitCore ==
  /\ now = 0
  /\ configured \in ExpireChoices
  /\ \E prefix \in Prefixes :
       config = [ExpireAt |-> configured, TokenPrefix |-> prefix, Storage |-> ClientStorage]
  /\ drivers = <<NewMemoryDriver>>
  /\ pc = [p \in Procs |-> "idle"]
  /\ call = [p \in Procs |-> IdleCall]
  /\ last = NoCall
  /\ touches = EmptyBag
  /\ issued = {}
  /\ revoked = {}
  /\ assigned = <<>>
  /\ db = NewGormDriver

NextCore ==
  \/ \E p \in Procs, o \in ValidOptions :
       TokensLeft(MaxTokens) /\ CreateBegin(p, o, FALSE)
  \/ \E p \in Procs : CreateStore(p)
  \/ \E p \in Procs, op \in {"validate", "revoke"}, raw \in Unknown \cup IssuedStrings :
       ValidateBegin(p, op, raw, FALSE)
  \/ \E p \in Procs : ValidateLookup(p)
  \/ \E p \in Procs : ValidateCheck(p)
  \/ \E p \in Procs : RevokeDelete(p)
  \/ \E tok \in TouchTokens : TouchRun(tok)
  \/ Return
  \/ Tick

SpecCore == InitCore /\ [][NextCore]_vars

\* The core with its scheduling: a call or goroutine that has begun runs to
\* its end, a result is handed back, the clock goes on.  No caller is bound
\* to call again.
FairCore ==
  /\ WF_vars(\E p \in Procs : CreateStore(p))
  /\ WF_vars(\E p \in Procs : ValidateLookup(p))
  /\ WF_vars(\E p \in Procs : ValidateCheck(p))
  /\ WF_vars(\E p \in Procs : RevokeDelete(p))
  /\ WF_vars(\E tok \in TouchTokens : TouchRun(tok))
  /\ WF_vars(Return)
  /\ WF_vars(Tick)

SpecCoreFair == InitCore /\ [][NextCore]_vars /\ FairCore

\* ------------------------------------------------------- the driver alone
\* One memory driver (drivers[1]) called directly, one method at a time (its
\* mutex admits no other order), with records of any digest: this is how a
\* digest comes to be stored twice.
MaxStores == 2          \* StoreToken calls per run

DriverSecrets == {<<"hexA", "crcA">>, <<"hexB", "crcB">>}
DriverDigests == {HashToken(x) : x \in DriverSecrets}
DriverRecords ==
  {[NilTok EXCEPT !.UserId = 1, !.Token = h, !.CreatedAt = now, !.ExpiresAt = e] :
     h \in DriverDigests, e \in {NilTime, now + 1}}
DriverIds == 1..MaxStores

DriverFrame == UNCHANGED <<db, now, configured, config, pc, call, touches, issued, revoked>>

DriverStoreToken(t) ==
  /\ last = NoCall
  /\ Len(assigned) < MaxStores
  /\ LET r == StoreToken(drivers[1], t)
     IN /\ drivers' = [drivers EXCEPT ![1] = r.drv]
        /\ assigned' = Append(assigned, <<1, r.id>>)
        /\ last' = [NoCall EXCEPT !.op = "StoreToken", !.err = r.err,
                                  !.tok = [t EXCEPT !.ID = r.id]]
  /\ DriverFrame

DriverFindByHash(h) ==
  /\ last = NoCall
  /\ LET r == FindByHash(drivers[1], h, now)
     IN last' = [NoCall EXCEPT !.op = "FindByHash", !.err = r.err, !.tok = r.tok,
                               !.raw = h]
  /\ UNCHANGED <<drivers, assigned>>
  /\ DriverFrame

DriverFindByID(id) ==
  /\ last = NoCall
  /\ LET r == FindByID(drivers[1], id, now)
     IN last' = [NoCall EXCEPT !.op = "FindByID", !.err = r.err, !.tok = r.tok,
                               !.raw = <<FormatInt(id)>>]
  /\ UNCHANGED <<drivers, assigned>>
  /\ DriverFrame

DriverRevokeToken(h) ==
  /\ last = NoCall
  /\ LET r == RevokeToken(drivers[1], h)
     IN /\ drivers' = [drivers EXCEPT ![1] = r.drv]
        /\ last' = [NoCall EXCEPT !.op = "RevokeToken", !.err = r.err, !.raw = h]
  /\ UNCHANGED assigned
  /\ DriverFrame

DriverTouchLastUsed(id) ==
  /\ last = NoCall
  /\ LET r == TouchLastUsed(drivers[1], id, now)
     IN /\ drivers' = [drivers EXCEPT ![1] = r.drv]
        /\ last' = [NoCall EXCEPT !.op = "TouchLastUsed", !.err = r.err,
                                  !.raw = <<FormatInt(id)>>]
  /\ UNCHANGED assigned
  /\ DriverFrame

NextDriver ==
  \/ \E t \in DriverRecords : DriverStoreToken(t)
  \/ \E h \in DriverDigests : DriverFindByHash(h)
  \/ \E id \in DriverIds : DriverFindByID(id)
  \/ \E h \in DriverDigests : DriverRevokeToken(h)
  \/ \E id \in DriverIds : DriverTouchLastUsed(id)
  \/ Return
  \/ Tick

SpecDriver == Init /\ [][NextDriver]_vars

\* ------------------------------------------------- the driver and its mutex
\* The memory driver's methods called from two goroutines, each method in its
\* steps: the lock taken, the body run, the deferred unlock at the return.
Reads == {"FindByID", "FindByHash"}
Writes == {"StoreToken", "RevokeToken", "TouchLastUsed"}

\* faulty variant: TouchLastUsed takes the read lock
LockKind_TouchShared(op) == IF op \in Reads \cup {"TouchLastUsed"} THEN "RLock" ELSE "Lock"

\* the lock each method takes on entry
LockKind(op) == IF op \in Reads THEN "RLock" ELSE "Lock"

\* sync.RWMutex: Lock waits for no holder at all, RLock for no writer
CanLock(mu, kind) == IF kind = "Lock" THEN ~mu.w /\ mu.r = 0 ELSE ~mu.w
Locked(mu, kind) == IF kind = "Lock" THEN [mu EXCEPT !.w = TRUE] ELSE [mu EXCEPT !.r = @ + 1]
Released(mu, kind) == IF kind = "Lock" THEN [mu EXCEPT !.w = FALSE] ELSE [mu EXCEPT !.r = @ - 1]

\* the arguments a method may be given
MethodArgs(op) ==
  CASE op = "StoreToken" -> DriverRecords
    [] op \in {"FindByHash", "RevokeToken"} -> DriverDigests
    [] OTHER -> DriverIds

\* a method's body on the driver m at time t: the driver it leaves and what
\* it returns
Body(op, arg, m, t) ==
  CASE op = "StoreToken" ->
         [drv |-> StoreToken(m, arg).drv, err |-> StoreToken(m, arg).err, tok |-> NilTok]
    [] op = "FindByHash" ->
         [drv |-> m, err |-> FindByHash(m, arg, t).err, tok |-> FindByHash(m, arg, t).tok]
    [] op = "FindByID" ->
         [drv |-> m, err |-> FindByID(m, arg, t).err, tok |-> FindByID(m, arg, t).tok]
    [] op = "RevokeToken" ->
         [drv |-> RevokeToken(m, arg).drv, err |-> RevokeToken(m, arg).err, tok |-> NilTok]
    [] OTHER ->
         [drv |-> TouchLastUsed(m, arg, t).drv, err |-> TouchLastUsed(m, arg, t).err,
          tok |-> NilTok]

\* faulty variant: the time is read on entry, before the lock is held
Clock_AtCall(p) == call[p].at

\* time.Now() is read in the body, with the lock held
Clock(p) == now

MutexFrame == UNCHANGED <<db, now, configured, config, touches, issued, revoked, assigned>>

\* goroutine p calls the method
MethodCall(p, op, arg) ==
  /\ last = NoCall
  /\ pc[p] = "idle"
  /\ op = "StoreToken" => drivers[1].nextID <= MaxStores
  /\ pc' = [pc EXCEPT ![p] = "lock"]
  /\ call' = [call EXCEPT ![p] = [op |-> op, arg |-> arg, at |-> now, err |-> NoErr,
                                    tok |-> NilTok]]
  /\ UNCHANGED <<drivers, last>>
  /\ MutexFrame

\* m.mu.Lock() / m.mu.RLock(), with the unlock deferred
MethodLock(p) ==
  /\ last = NoCall
  /\ pc[p] = "lock"
  /\ CanLock(drivers[1].mu, LockKind(call[p].op))
  /\ drivers' = [drivers EXCEPT ![1].mu = Locked(@, LockKind(call[p].op))]
  /\ pc' = [pc EXCEPT ![p] = "body"]
  /\ UNCHANGED <<call, last>>
  /\ MutexFrame

\* the method's statements between the lock and the return
MethodBody(p) ==
  /\ last = NoCall
  /\ pc[p] = "body"
  /\ LET r == Body(call[p].op, call[p].arg, drivers[1], Clock(p))
     IN /\ drivers' = [drivers EXCEPT ![1] = r.drv]
        /\ call' = [call EXCEPT ![p].err = r.err, ![p].tok = r.tok]
  /\ pc' = [pc EXCEPT ![p] = "return"]
  /\ UNCHANGED last
  /\ MutexFrame

\* the return, whichever it is: the deferred Unlock / RUnlock runs
MethodReturn(p) ==
  /\ last = NoCall
  /\ pc[p] = "return"
  /\ drivers' = [drivers EXCEPT ![1].mu = Released(@, LockKind(call[p].op))]
  /\ last' = [NoCall EXCEPT !.op = call[p].op, !.err = call[p].err, !.tok = call[p].tok]
  /\ pc' = [pc EXCEPT ![p] = "idle"]
  /\ call' = [call EXCEPT ![p] = IdleCall]
  /\ MutexFrame

NextMutex ==
  \/ \E p \in Procs, op \in Reads \cup Writes : \E arg \in MethodArgs(op) :
       MethodCall(p, op, arg)
  \/ \E p \in Procs : MethodLock(p)
  \/ \E p \in Procs : MethodBody(p)
  \/ \E p \in Procs : MethodReturn(p)
  \/ Return

SpecMutex == Init /\ [][NextMutex]_vars

\* stores and touches while the clock advances
NextClock ==
  \/ \E p \in Procs, op \in {"StoreToken", "TouchLastUsed"} : \E arg \in MethodArgs(op) :
       MethodCall(p, op, arg)
  \/ \E p \in Procs : MethodLock(p)
  \/ \E p \in Procs : MethodBody(p)
  \/ \E p \in Procs : MethodReturn(p)
  \/ Return
  \/ Tick

SpecClock == Init /\ [][NextClock]_vars

\* ------------------------------------------------- the two drivers together
\* A memory driver (drivers[1]) and a gorm driver (db), both new, given the
\* same calls at the same times.
PairResult(op, arg, m, g) == [op |-> op, raw |-> arg, mem |-> m, gorm |-> g]

PairFrame ==
  UNCHANGED <<now, configured, config, pc, call, touches, issued, revoked, assigned>>

PairStoreToken(t) ==
  /\ last = NoCall
  /\ drivers[1].nextID <= MaxStores
  /\ LET m == StoreToken(drivers[1], t)
         g == GormStoreToken(db, t)
     IN /\ drivers' = [drivers EXCEPT ![1] = m.drv]
        /\ db' = g.drv
        /\ last' = PairResult("StoreToken", t.Token, m, g)
  /\ PairFrame

PairFindByHash(h) ==
  /\ last = NoCall
  /\ last' = PairResult("FindByHash", h, FindByHash(drivers[1], h, now),
                        GormFindByHash(db, h, now))
  /\ UNCHANGED <<drivers, db>>
  /\ PairFrame

PairFindByID(id) ==
  /\ last = NoCall
  /\ last' = PairResult("FindByID", <<FormatInt(id)>>, FindByID(drivers[1], id, now),
                        GormFindByID(db, id, now))
  /\ UNCHANGED <<drivers, db>>
  /\ PairFrame

PairRevokeToken(h) ==
  /\ last = NoCall
  /\ LET m == RevokeToken(drivers[1], h)
         g == GormRevokeToken(db, h)
     IN /\ drivers' = [drivers EXCEPT ![1] = m.drv]
        /\ db' = g.drv
        /\ last' = PairResult("RevokeToken", h, m, g)
  /\ PairFrame

PairTouchLastUsed(id) ==
  /\ last = NoCall
  /\ LET m == TouchLastUsed(drivers[1], id, now)
         g == GormTouchLastUsed(db, id, now)
     IN /\ drivers' = [drivers EXCEPT ![1] = m.drv]
        /\ db' = g.drv
        /\ last' = PairResult("TouchLastUsed", <<FormatInt(id)>>, m, g)
  /\ PairFrame

NextPair ==
  \/ \E t \in DriverRecords : PairStoreToken(t)
  \/ \E h \in DriverDigests : PairFindByHash(h)
  \/ \E id \in DriverIds : PairFindByID(id)
  \/ \E h \in DriverDigests : PairRevokeToken(h)
  \/ \E id \in DriverIds : PairTouchLastUsed(id)
  \/ Return
  \/ Tick

SpecPair == Init /\ [][NextPair]_vars

\* ---------------------------------------------------------------- NewClient
\* NewClient(opts...): the defaults, each option in turn, Config.Validate.
MinTokenLength == 16        \* WithTokenLength's least length
ValidateMinLength == 16     \* Config.Validate's least length
DefaultTokenLength == 32    \* NewClient's TokenLength

ErrSigningKeyEmpty == "signing key cannot be empty"
ErrTokenLength == "token length must be at least 16 characters"
ErrUnsupportedMethod == "unsupported signing method"
ErrMissingKey == "missing HMAC signing key"
ErrMissingKeyPair == "missing RSA key pair"
ErrLengthTooShort == "auth length too short"
ErrApplyOption(e) == "failed to apply option: " \o e
ErrInvalidConfiguration(e) == "invalid configuration: " \o e

\* the *Client returned with an error
NilClient ==
  [isNil |-> TRUE, TokenLength |-> 0, ExpireAt |-> 0, SigningMethod |-> "",
   SigningKey |-> "", storage |-> NilStorage]

\* the client NewClient starts from; generateSecureKey gives a non-empty key
DefaultClient ==
  [isNil |-> FALSE, TokenLength |-> DefaultTokenLength, ExpireAt |-> DefaultExpireAt,
   SigningMethod |-> "HS256", SigningKey |-> "generated", storage |-> ClientStorage]

WithSigningKey(key) == [opt |-> "WithSigningKey", key |-> key, n |-> 0]
WithTokenLength(length) == [opt |-> "WithTokenLength", key |-> "", n |-> length]
WithTokenExpiration(d) == [opt |-> "WithTokenExpiration", key |-> "", n |-> d]
WithMemoryStorage == [opt |-> "WithMemoryStorage", key |-> "", n |-> 0]

\* one option applied to the client
ApplyOption(c, o) ==
  CASE o.opt = "WithSigningKey" ->
         IF o.key = "" THEN [client |-> c, err |-> ErrSigningKeyEmpty]
         ELSE [client |-> [c EXCEPT !.SigningKey = o.key], err |-> NoErr]
    [] o.opt = "WithTokenLength" ->
         IF o.n < MinTokenLength THEN [client |-> c, err |-> ErrTokenLength]
         ELSE [client |-> [c EXCEPT !.TokenLength = o.n], err |-> NoErr]
    [] o.opt = "WithTokenExpiration" ->
         [client |-> [c EXCEPT !.ExpireAt = o.n], err |-> NoErr]
    [] OTHER ->
         [client |-> [c EXCEPT !.storage = ClientStorage], err |-> NoErr]

\* Config.Validate; no option sets the RSA keys, which stay nil
Validate(c) ==
  IF c.SigningMethod \notin {"HS256", "RS256"} THEN ErrUnsupportedMethod
  ELSE IF c.SigningMethod = "HS256" /\ c.SigningKey = "" THEN ErrMissingKey
  ELSE IF c.SigningMethod = "RS256" THEN ErrMissingKeyPair
  ELSE IF c.TokenLength < ValidateMinLength THEN ErrLengthTooShort
  ELSE NoErr

\* the options from the i-th on, applied to c, then Validate
RECURSIVE NewClientFrom(_, _, _)
\* faulty variant: an option's error is dropped and the next option applied
NewClientFrom_IgnoresOptionError(c, opts, i) ==
  IF i > Len(opts)
  THEN IF Validate(c) # NoErr
       THEN [client |-> NilClient, err |-> ErrInvalidConfiguration(Validate(c))]
       ELSE [client |-> c, err |-> NoErr]
  ELSE NewClientFrom(ApplyOption(c, opts[i]).client, opts, i + 1)

NewClientFrom(c, opts, i) ==
  IF i > Len(opts)
  THEN IF Validate(c) # NoErr
       THEN [client |-> NilClient, err |-> ErrInvalidConfiguration(Validate(c))]
       ELSE [client |-> c, err |-> NoErr]
  ELSE LET r == ApplyOption(c, opts[i])
       IN IF r.err # NoErr
          THEN [client |-> NilClient, err |-> ErrApplyOption(r.err)]
          ELSE NewClientFrom(r.client, opts, i + 1)

NewClient(opts) == NewClientFrom(DefaultClient, opts, 1)

MaxOptions == 2             \* options given to one NewClient

Options ==
  {WithSigningKey(""), WithSigningKey("test-key-123"), WithMemoryStorage} \cup
  {WithTokenLength(n) : n \in {0, 10, MinTokenLength - 1, MinTokenLength, 64}} \cup
  {WithTokenExpiration(d) : d \in ExpireChoices}

OptionLists == UNION {[1..k -> Options] : k \in 0..MaxOptions}

NewClientCall(opts) ==
  /\ last = NoCall
  /\ LET r == NewClient(opts)
     IN last' = [op |-> "NewClient", raw |-> opts, client |-> r.client, err |-> r.err]
  /\ UNCHANGED <<db, now, configured, config, drivers, pc, call, touches, issued,
                 revoked, assigned>>

NextNewClient ==
  \/ \E opts \in OptionLists : NewClientCall(opts)
  \/ Return

SpecNewClient == Init /\ [][NextNewClient]_vars

\* ------------------------------------------------ the core on a gorm driver
\* auth.CreateToken, auth.ValidateToken and auth.RevokeToken given a Config
\* whose Storage is the gorm driver over db (SetupGorm's, made valid by its
\* caller).  Each driver call is one statement on the database.
GormValidateFind(raw, g, t) ==
  LET parts == Split(CutPrefixBearer(raw))
  IN IF Len(parts) # 2
     THEN [tok |-> NilTok, err |-> ErrTokenInvalid]
     ELSE LET hashed == HashToken(parts[2])
              r == GormFindByHash(g, hashed, t)
          IN IF r.err # NoErr THEN r
             ELSE IF r.tok.Token # hashed
             THEN [tok |-> NilTok, err |-> ErrTokenInvalid]
             ELSE r

\* auth.CreateToken: the record built and inserted, the string returned
GormCreateToken(p, opts) ==
  /\ last = NoCall
  /\ pc[p] = "idle"
  /\ LET c == [IdleCall EXCEPT !.op = "create", !.opts = opts]
         cfg == ApplyDefaults(config)
         plainText == GenerateTokenString(cfg.TokenPrefix, Cardinality(issued) + 1)
         t == [ID |-> 0, UserId |-> opts.UserId, Token |-> HashToken(plainText),
               Name |-> "", Abilities |-> Join(opts.Abilities), CreatedAt |-> now,
               ExpiresAt |-> ExpireAtOf(cfg, now), LastUsedAt |-> NilTime]
         r == GormStoreToken(db, t)
         str == <<FormatInt(r.id), Sep>> \o plainText
     IN IF opts.isNil
        THEN /\ last' = Returned(c, NoErr, ErrOptionsRequired, NilTok, <<>>)
             /\ UNCHANGED <<db, issued>>
        ELSE IF r.err # NoErr
        THEN /\ last' = Returned(c, NoErr, r.err, NilTok, <<>>)
             /\ UNCHANGED <<db, issued>>
        ELSE /\ db' = r.drv
             /\ issued' = issued \cup
                  {[raw |-> str, opts |-> opts, CreatedAt |-> t.CreatedAt,
                    ExpiresAt |-> t.ExpiresAt]}
             /\ last' = Returned(c, NoErr, NoErr, NilTok, str)
  /\ UNCHANGED <<now, configured, config, drivers, pc, call, touches, revoked, assigned>>

\* auth.ValidateToken, alone or inside auth.RevokeToken: the lookup, the
\* expiry check, the last-used goroutine started
GormValidateToken(p, op, raw) ==
  /\ last = NoCall
  /\ pc[p] = "idle"
  /\ LET c == [IdleCall EXCEPT !.op = op, !.raw = raw]
         f == GormValidateFind(raw, db, now)
         e == IF f.err # NoErr THEN f.err ELSE ValidateExpiry(f.tok, now)
     IN IF e # NoErr
        THEN /\ last' = Returned(c, e, IF op = "revoke" THEN RevokeInvalid(e) ELSE e,
                                 NilTok, <<>>)
             /\ UNCHANGED <<pc, call, touches>>
        ELSE /\ BagCardinality(touches) < MaxTouches
             /\ touches' = touches (+) SetToBag({Held(f.tok)})
             /\ IF op = "revoke"
                THEN /\ pc' = [pc EXCEPT ![p] = "gdelete"]
                     /\ call' = [call EXCEPT ![p] = [c EXCEPT !.tok = Held(f.tok)]]
                     /\ UNCHANGED last
                ELSE /\ last' = Returned(c, NoErr, NoErr, Held(f.tok), <<>>)
                     /\ UNCHANGED <<pc, call>>
  /\ UNCHANGED <<db, now, configured, config, drivers, issued, revoked, assigned>>

\* auth.RevokeToken after its ValidateToken: the delete by digest
GormRevokeDelete(p) ==
  /\ last = NoCall
  /\ pc[p] = "gdelete"
  /\ LET c == call[p]
         r == GormRevokeToken(db, c.tok.Token)
     IN /\ db' = r.drv
        /\ IF r.err # NoErr
           THEN /\ Done(p, Returned(c, NoErr, RevokeFailed(r.err), NilTok, <<>>))
                /\ UNCHANGED revoked
           ELSE /\ Done(p, Returned(c, NoErr, NoErr, NilTok, <<>>))
                /\ revoked' = revoked \cup {c.tok.Token}
  /\ UNCHANGED <<now, configured, config, drivers, touches, issued, assigned>>

\* the last-used goroutine on the gorm driver
GormTouchRun(tok) ==
  /\ last = NoCall
  /\ BagIn(tok, touches)
  /\ LET r == GormTouchLastUsed(db, tok.ID, now)
     IN /\ db' = r.drv
        /\ last' = Touched(tok, r.err)
  /\ touches' = touches (-) SetToBag({tok})
  /\ UNCHANGED <<now, configured, config, drivers, pc, call, issued, revoked, assigned>>

NextGorm ==
  \/ \E p \in Procs, o \in TokenOptions : TokensLeft(MaxTokens) /\ GormCreateToken(p, o)
  \/ \E p \in Procs, op \in {"validate", "revoke"}, raw \in RawInputs \ {<<>>} :
       GormValidateToken(p, op, raw)
  \/ \E p \in Procs : GormRevokeDelete(p)
  \/ \E tok \in TouchTokens : GormTouchRun(tok)
  \/ Return
  \/ Tick

SpecGorm == Init /\ [][NextGorm]_vars

\* ------------------------------------------------ the package-level functions
\* The deprecated package-level functions run on one client, made by
\* NewClient() on first use (the client of Init); the caller's database is db.
\* SetupGorm(db): a default Config whose Storage is the gorm driver over db
LegacyConfigs == {"SetupGorm(db)", "nil"}

\* goauth.CreateToken(opts)
LegacyCreateToken(p, opts) == CreateBegin(p, opts, FALSE)

\* goauth.ValidateToken(raw, cfg): the client's ValidateToken on a background
\* context; cfg is not read
LegacyValidateToken(p, raw, cfg) == ValidateBegin(p, "validate", raw, FALSE)

\* goauth.RevokeToken(raw, cfg): likewise
LegacyRevokeToken(p, raw, cfg) == ValidateBegin(p, "revoke", raw, FALSE)

NextLegacy ==
  \/ \E p \in Procs, o \in ValidOptions : TokensLeft(MaxTokens) /\ GormCreateToken(p, o)
  \/ \E p \in Procs, o \in ValidOptions : TokensLeft(MaxTokens) /\ LegacyCreateToken(p, o)
  \/ \E p \in Procs : CreateStore(p)
  \/ \E p \in Procs, raw \in Unknown \cup IssuedStrings, cfg \in LegacyConfigs :
       LegacyValidateToken(p, raw, cfg)
  \/ \E p \in Procs, raw \in Unknown \cup IssuedStrings, cfg \in LegacyConfigs :
       LegacyRevokeToken(p, raw, cfg)
  \/ \E p \in Procs : ValidateDefaults(p)
  \/ \E p \in Procs : ValidateLookup(p)
  \/ \E p \in Procs : ValidateCheck(p)
  \/ \E p \in Procs : RevokeDelete(p)
  \/ \E tok \in TouchTokens : TouchRun(tok)
  \/ Return
  \/ Tick

SpecLegacy == Init /\ [][NextLegacy]_vars

\* ------------------------------------------------ crypto/rand failing
\* Each rand.Read either fills its buffer or returns an error; which is an
\* input of the call that makes it.
NoKey == <<>>
EnvKeys == {"", "env-key"}
RandomKey == <<"base64", "random">>
FallbackKey(t) == <<"base64", "fallback-key-", FormatInt(t)>>

\* generateSecureKey: GOAUTH_SIGNING_KEY if set, else 32 random bytes, else a
\* key made of the clock's reading
generateSecureKey(env, readFails, t) ==
  IF env # "" THEN <<env>>
  ELSE IF readFails THEN FallbackKey(t)
  ELSE RandomKey

PanicTokenGeneration == "panic: token generation failed"

\* what became of the call's two reads of crypto/rand
Reads2(first, env, keyFails, reached, tokenFails) ==
  [keyRead |-> IF ~first \/ env # "" THEN "none" ELSE IF keyFails THEN "failed" ELSE "ok",
   tokenRead |-> IF ~reached THEN "none" ELSE IF tokenFails THEN "failed" ELSE "ok"]

\* goauth.CreateToken(opts): the singleton client made on first use
\* (NewClient(), its key from generateSecureKey), then Client.CreateToken on
\* a background context down to generator.Create, whose generateTokenString
\* panics when its read fails
PackageCreateToken(p, opts, env, keyFails, tokenFails) ==
  /\ last = NoCall
  /\ pc[p] = "idle"
  /\ LET first == config.SigningKey = NoKey
         key == IF first THEN generateSecureKey(env, keyFails, now) ELSE config.SigningKey
         cfg0 == [config EXCEPT !.SigningKey = key]
         cfg == [ApplyDefaults(cfg0) EXCEPT !.Storage = ClientStorage]
         c == [IdleCall EXCEPT !.op = "create", !.opts = opts]
         plainText == GenerateTokenString(cfg.TokenPrefix, Cardinality(issued) + 1)
         t == [ID |-> 0, UserId |-> opts.UserId, Token |-> HashToken(plainText),
               Name |-> "", Abilities |-> Join(opts.Abilities), CreatedAt |-> now,
               ExpiresAt |-> ExpireAtOf(cfg, now), LastUsedAt |-> NilTime]
         r == StoreToken(drivers[cfg.Storage], t)
         str == <<FormatInt(r.id), Sep>> \o plainText
     IN IF key = NoKey
        THEN /\ last' = Returned(c, NoErr, ErrInvalidConfiguration(ErrMissingKey), NilTok, <<>>)
                          @@ Reads2(first, env, keyFails, FALSE, tokenFails)
             /\ UNCHANGED <<config, drivers, assigned, issued>>
        ELSE IF opts.isNil \/ opts.UserId <= 0
        THEN /\ last' = Returned(c, NoErr, IF opts.isNil THEN ErrOptionsNil ELSE ErrUserId,
                                 NilTok, <<>>)
                          @@ Reads2(first, env, keyFails, FALSE, tokenFails)
             /\ config' = cfg0
             /\ UNCHANGED <<drivers, assigned, issued>>
        ELSE IF tokenFails
        THEN /\ last' = Returned(c, NoErr, PanicTokenGeneration, NilTok, <<>>)
                          @@ Reads2(first, env, keyFails, TRUE, tokenFails)
             /\ config' = cfg
             /\ UNCHANGED <<drivers, assigned, issued>>
        ELSE /\ last' = Returned(c, NoErr, NoErr, NilTok, str)
                          @@ Reads2(first, env, keyFails, TRUE, tokenFails)
             /\ config' = cfg
             /\ drivers' = [drivers EXCEPT ![cfg.Storage] = r.drv]
             /\ assigned' = Append(assigned, <<cfg.Storage, r.id>>)
             /\ issued' = issued \cup
                  {[raw |-> str, opts |-> opts, CreatedAt |-> t.CreatedAt,
                    ExpiresAt |-> t.ExpiresAt]}
  /\ UNCHANGED <<db, now, configured, pc, call, touches, revoked>>

\* no package-level call made yet: the singleton client does not exist
InitRand ==
  /\ now = 0
  /\ configured \in ExpireChoices
  /\ config = [ExpireAt |-> configured, TokenPrefix |-> <<>>, Storage |-> NilStorage,
               SigningKey |-> NoKey]
  /\ drivers = <<NewMemoryDriver>>
  /\ pc = [p \in Procs |-> "idle"]
  /\ call = [p \in Procs |-> IdleCall]
  /\ last = NoCall
  /\ touches = EmptyBag
  /\ issued = {}
  /\ revoked = {}
  /\ assigned = <<>>
  /\ db = NewGormDriver

NextRand ==
  \/ \E p \in Procs, o \in TokenOptions, env \in EnvKeys, kf \in BOOLEAN, tf \in BOOLEAN :
       TokensLeft(MaxTokens + 1) /\ PackageCreateToken(p, o, env, kf, tf)
  \/ Return
  \/ Tick

SpecRand == InitRand /\ [][NextRand]_vars

\* ------------------------------------------------- the secret, by character
\* generator.generateTokenString character by character: the buffer's bytes in
\* hex, two digits a byte, then the checksum printed with %x (no padding).
HexDigit(d) ==
  <<"0", "1", "2", "3", "4", "5", "6", "7", "8", "9", "a", "b", "c", "d", "e", "f">>[d + 1]

\* hex.EncodeToString
RECURSIVE EncodeToString(_)
EncodeToString(buf) ==
  IF buf = <<>> THEN <<>>
  ELSE <<HexDigit(Head(buf) \div 16), HexDigit(Head(buf) % 16)>> \o EncodeToString(Tail(buf))

\* digits without their leading zeros, one digit at least
RECURSIVE TrimZeros(_)
TrimZeros(digits) ==
  IF Len(digits) > 1 /\ Head(digits) = "0" THEN TrimZeros(Tail(digits)) ELSE digits

\* fmt's %x of a uint32, given as its four bytes, high byte first
FormatHex(n) == TrimZeros(EncodeToString(n))

\* the string for the buffer buf that rand.Read filled and the checksum crc
\* that crc32.Checksum gave for its hex
generateTokenString(prefix, buf, crc) == prefix \o EncodeToString(buf) \o FormatHex(crc)

\* lengths given to WithTokenLength, bytes rand.Read may fill the buffer
\* with, checksums (any uint32, as four bytes)
LengthChoices == {10, MinTokenLength, 17, DefaultTokenLength, 64}
ByteChoices == {0, 1, 171, 255}
CrcChoices ==
  {<<0, 0, 0, 0>>, <<0, 0, 0, 10>>, <<0, 0, 0, 255>>, <<0, 0, 16, 0>>,
   <<18, 52, 86, 120>>, <<255, 255, 255, 255>>}

\* NewClient(WithTokenLength(n)), then the secret of a token it creates
GenerateCall(n, b, crc) ==
  /\ last = NoCall
  /\ LET r == NewClient(<<WithTokenLength(n)>>)
     IN last' = [op |-> "generateTokenString", client |-> r.client, err |-> r.err,
                 str |-> IF r.err # NoErr THEN <<>>
                         ELSE generateTokenString(
                                config.TokenPrefix,
                                [i \in 1..r.client.TokenLength |-> b], crc)]
  /\ UNCHANGED <<db, now, configured, config, drivers, pc, call, touches, issued,
                 revoked, assigned>>

NextGenerate ==
  \/ \E n \in LengthChoices, b \in ByteChoices, crc \in CrcChoices : GenerateCall(n, b, crc)
  \/ Return

SpecGenerate == Init /\ [][NextGenerate]_vars

\* ================================================================== claims
\* the digest ValidateToken looks a well-formed string up by
Digest(raw) == HashToken(Split(CutPrefixBearer(raw))[2])

WellFormed(raw) == Len(Split(CutPrefixBearer(raw))) = 2

\* the errors Client.ValidateToken / Client.RevokeToken return before the
\* validator runs
GuardErrors == {ErrEmpty, ErrCanceled}

\* the last call to return was a ValidateToken that got past the client's
\* own guards (a non-empty string, a live context)
ValidateReturned ==
  last.op = "validate" /\ last.verr \notin GuardErrors

\* a call has returned in this step
Returns == last = NoCall /\ last' # NoCall

\* the record with the digest of raw in the driver config.Storage names
StoredIn(m, raw) == m.tokensByID[m.tokensByHash[Digest(raw)]]
IsStoredIn(m, raw) == WellFormed(raw) /\ Digest(raw) \in DOMAIN m.tokensByHash

\* C1: ValidateToken of a string CreateToken returned, while the token is
\* neither revoked nor past its expiry, succeeds and returns the record with
\* the userId given to CreateToken and its abilities joined by ",".
C1_ValidateAfterCreate ==
  \A i \in issued :
    (/\ ValidateReturned
     /\ last.raw = i.raw
     /\ Digest(i.raw) \notin revoked
     /\ (i.ExpiresAt = NilTime \/ now < i.ExpiresAt))
    => (/\ last.err = NoErr
        /\ last.tok.UserId = i.opts.UserId
        /\ last.tok.Abilities = Join(i.opts.Abilities))

\* C2: once a RevokeToken has succeeded for a token, every ValidateToken and
\* every RevokeToken that looks the token up afterwards fails with "token
\* not found".
C2_RevokedStaysRevoked ==
  [][\A p \in Procs :
       (/\ pc[p] = "lookup"
        /\ pc'[p] # "lookup"
        /\ WellFormed(call[p].raw)
        /\ Digest(call[p].raw) \in revoked)
       => (/\ pc'[p] = "idle"
           /\ last'.op = call[p].op
           /\ last'.verr = ErrNotFound
           /\ last'.err = ErrNotFound)]_vars

C2_Witness ==
  /\ ValidateReturned
  /\ WellFormed(last.raw)
  /\ Digest(last.raw) \in revoked
  /\ last.err = ErrNotFound

C4_MalformedIsInvalidFormat ==
  [][(/\ Returns
      /\ last'.op = "validate"
      /\ last'.verr \notin GuardErrors
      /\ ~WellFormed(last'.raw))
     => (/\ last'.err = ErrTokenInvalidFormat
         /\ drivers' = drivers)]_vars

C6_ZeroMeansUnlimited ==
  \A i \in issued :
    /\ configured = 0 => i.ExpiresAt = NilTime
    /\ configured > 0 => i.ExpiresAt = i.CreatedAt + configured

\* C7: a RevokeToken whose validation fails returns exactly the validator's
\* error and deletes nothing from any driver.
C7_RevokeInvalidDeletesNothing ==
  [][(/\ Returns
      /\ last'.op = "revoke"
      /\ last'.verr # NoErr)
     => (/\ last'.err = last'.verr
         /\ \A d \in 1..Len(drivers) : drivers'[d] = drivers[d])]_vars

\* an expired token's revoke has failed as expired and its record is still there
C7_Witness ==
  /\ last.op = "revoke"
  /\ last.err = ErrTokenExpired
  /\ IsStoredIn(drivers[config.Storage], last.raw)

\* C8: what ValidateToken returns after a successful lookup is decided by
\* the record it holds and the time alone, also when the token has been
\* revoked since the lookup; the last-used goroutine, whatever TouchLastUsed
\* returns to it, changes no caller's state and result and is not run again.
C8_TouchOutcomeSwallowed ==
  [][/\ \A p \in Procs :
          (/\ pc[p] = "check"
           /\ pc'[p] # "check"
           /\ call[p].op = "validate"
           /\ ValidateExpiry(call[p].tok, now) = NoErr)
          => (/\ last'.err = NoErr
              /\ last'.tok = call[p].tok)
     /\ (Returns /\ last'.op = "touch")
          => (/\ pc' = pc
              /\ call' = call
              /\ touches' = touches (-) SetToBag({last'.tok}))]_vars

\* a ValidateToken has returned the record of a token revoked since its
\* lookup, its last-used update still to run
C8_Witness ==
  /\ last.op = "validate"
  /\ last.err = NoErr
  /\ last.tok.Token \in revoked
  /\ BagIn(last.tok, touches)

\* C9: StoreToken of a record whose digest is already stored fails and
\* leaves the driver as it was.
C9_DuplicateHashRejected ==
  [][(/\ Returns
      /\ last'.op = "StoreToken"
      /\ last'.tok.Token \in DOMAIN drivers[1].tokensByHash)
     => (/\ last'.err # NoErr
         /\ drivers' = drivers)]_vars

\* C10: the ids a memory driver assigns are strictly increasing in the order
\* of assignment, whatever was revoked in between: no id is given twice.
C10_IdsStrictlyIncreasing ==
  \A i, j \in 1..Len(assigned) :
    (i < j /\ assigned[i][1] = assigned[j][1]) => assigned[i][2] < assigned[j][2]

\* a second id was assigned after the record with the first was deleted
C10_Witness ==
  /\ Len(assigned) = 2
  /\ assigned[1][2] \notin DOMAIN drivers[1].tokensByID
  /\ assigned[2][2] \in DOMAIN drivers[1].tokensByID

\* the kind of outcome a driver's error stands for; gorm's "record not
\* found" is counted as not found
Kind(err) ==
  CASE err = NoErr -> "success"
    [] err \in {ErrNotFound, ErrRecordNotFound} -> "TokenNotFound"
    [] err = ErrTokenExpired -> "TokenExpired"
    [] OTHER -> "StorageFailure"

\* the records a driver holds
MemoryRecords(m) == {m.tokensByID[i] : i \in DOMAIN m.tokensByID}
GormRecords(g) == {g.rows[i] : i \in DOMAIN g.rows}

PairReturned == last.op \in {"StoreToken", "FindByHash", "FindByID", "RevokeToken",
                             "TouchLastUsed"}

\* C11: after every driver call given to a memory driver and a gorm driver
\* alike, the two outcomes are of one kind and the two drivers hold the same
\* records.
C11_DriversAgree ==
  PairReturned =>
    /\ Kind(last.mem.err) = Kind(last.gorm.err)
    /\ MemoryRecords(drivers[1]) = GormRecords(db)

\* C12: in either driver, RevokeToken of a digest with no stored record fails
\* as not found and leaves the driver as it was.
C12_RevokeAbsentFails ==
  [][(/\ Returns
      /\ last'.op = "RevokeToken"
      /\ last'.raw \notin DOMAIN drivers[1].tokensByHash
      /\ \A i \in DOMAIN db.rows : db.rows[i].Token # last'.raw)
     => (/\ Kind(last'.mem.err) = "TokenNotFound"
         /\ Kind(last'.gorm.err) = "TokenNotFound"
         /\ drivers' = drivers
         /\ db' = db)]_vars

\* every record held by any memory driver made so far
AllRecords == UNION {MemoryRecords(drivers[d]) : d \in 1..Len(drivers)}

\* C13: a CreateToken given nil options or a user id <= 0 returns an error
\* and changes no driver; every record in storage has a user id > 0.
C13_UserIdPositive ==
  [][/\ (/\ Returns
         /\ last'.op = "create"
         /\ (last'.opts.isNil \/ last'.opts.UserId <= 0))
        => (/\ last'.err # NoErr
            /\ last'.str = <<>>
            /\ drivers' = drivers)
     /\ \A d \in 1..Len(drivers') :
          \A t \in MemoryRecords(drivers'[d]) : t.UserId > 0]_vars

\* a CreateToken with user id 0 has been refused
C13_Witness ==
  /\ last.op = "create"
  /\ ~last.opts.isNil
  /\ last.opts.UserId = 0
  /\ last.err = ErrUserId

\* the arguments of the returned call would pass the client's checks
ValidArguments ==
  \/ last.op = "create" /\ ~last.opts.isNil /\ last.opts.UserId > 0
  \/ last.op \in {"validate", "revoke"} /\ last.raw # <<>>

\* C14: CreateToken, ValidateToken and RevokeToken given valid arguments and
\* a cancelled context return "context canceled" in one step that stores,
\* removes and touches nothing and starts no last-used update.
C14_CancelledChangesNothing ==
  [][/\ \A p \in Procs : call'[p].ctx = FALSE
     /\ (Returns /\ last'.ctx /\ ValidArguments')
        => (/\ last'.err = ErrCanceled
            /\ drivers' = drivers
            /\ touches' = touches)]_vars

\* a RevokeToken of an issued token with a cancelled context has returned,
\* the token still stored
C14_Witness ==
  /\ last.op = "revoke"
  /\ last.ctx
  /\ last.err = ErrCanceled
  /\ \E d \in 1..Len(drivers) : IsStoredIn(drivers[d], last.raw)

\* the token lengths among the options of the returned NewClient
LengthsGiven == {last.raw[i].n : i \in {j \in 1..Len(last.raw) : last.raw[j].opt = "WithTokenLength"}}
KeysGiven == {last.raw[i].key : i \in {j \in 1..Len(last.raw) : last.raw[j].opt = "WithSigningKey"}}

\* C15: NewClient given a token length below 16 returns an error and no
\* client; given only lengths of 16 or more and non-empty signing keys it
\* returns a client and no error.
C15_TokenLengthAtLeast16 ==
  last.op = "NewClient" =>
    /\ (\E n \in LengthsGiven : n < 16)
         => (last.err # NoErr /\ last.client = NilClient)
    /\ ((\A n \in LengthsGiven : n >= 16) /\ "" \notin KeysGiven)
         => (/\ last.err = NoErr
             /\ ~last.client.isNil
             /\ last.client.TokenLength >= 16)

\* NewClient(WithSigningKey("test-key-123"), WithTokenLength(10)) has failed
C15_Witness ==
  /\ last.op = "NewClient"
  /\ last.raw = <<WithSigningKey("test-key-123"), WithTokenLength(10)>>
  /\ last.err = ErrApplyOption(ErrTokenLength)
  /\ last.client = NilClient

\* C16: a record's LastUsedAt is set or changed by no step but the return of
\* the last-used goroutine that a successful ValidateToken of that record's
\* token started; a record is stored with no LastUsedAt.
C16_LastUsedOnlyByOwnTouch ==
  [][\A d \in 1..Len(drivers') : \A t \in MemoryRecords(drivers'[d]) :
        t.LastUsedAt # NilTime
          => \/ d <= Len(drivers) /\ t \in MemoryRecords(drivers[d])
             \/ Returns /\ last'.op = "touch" /\ last'.tok.Token = t.Token]_vars

\* C17: when the last-used goroutine that a successful ValidateToken started
\* has run and the token has not been revoked, the token's record carries a
\* LastUsedAt of the time of that run (no earlier than the validation).
C17_TouchSetsLastUsed ==
  [][(Returns /\ last'.op = "touch" /\ last'.tok.Token \notin revoked')
       => \E t \in AllRecords' :
            /\ t.Token = last'.tok.Token
            /\ t.LastUsedAt = now']_vars

\* the composed secret inside a string CreateToken returned
SecretOf(raw) == Split(raw)[2]

\* C18: the Token field of every stored record is HashToken of the composed
\* secret of a string CreateToken returned for that record's user, and no
\* string field of a stored record is such a secret.
C18_OnlyDigestStored ==
  \A t \in AllRecords :
    /\ \E i \in issued :
         /\ i.opts.UserId = t.UserId
         /\ t.Token = HashToken(SecretOf(i.raw))
    /\ \A i \in issued :
         /\ t.Token # SecretOf(i.raw)
         /\ t.Abilities # SecretOf(i.raw)
         /\ t.Name = ""

\* CreateToken has returned a string whose record is stored
C18_Witness ==
  /\ last.op = "create"
  /\ last.err = NoErr
  /\ \E t \in AllRecords : t.Token = HashToken(SecretOf(last.str))

\* the secrets a caller may put after the "|"
Secrets == {SecretOf(r) : r \in IssuedStrings \cup Unknown}

\* C19: in every state, against every driver, ValidateToken of a|s and of
\* b|s return the same record and error, whatever the id parts a and b.
C19_IdPartIgnored ==
  \A d \in 1..Len(drivers) : \A s \in Secrets : \A a, b \in IdParts :
    ValidateToken(a \o <<Sep>> \o s, drivers[d], now)
      = ValidateToken(b \o <<Sep>> \o s, drivers[d], now)

\* a ValidateToken given an id part that is not the record's id has returned
\* the record
C19_Witness ==
  /\ last.op = "validate"
  /\ last.err = NoErr
  /\ Split(last.raw)[1] # <<FormatInt(last.tok.ID)>>
  /\ last.tok.Token = HashToken(SecretOf(last.raw))

\* C20: the string a successful CreateToken returns is the decimal id the
\* driver assigned to the record just stored, one "|", and a secret whose
\* HashToken is that record's Token; it has no other "|", so that Split
\* gives exactly two parts, whatever the configured TokenPrefix.
C20_StringIsIdBarSecret ==
  (last.op = "create" /\ last.err = NoErr)
    => LET a == assigned[Len(assigned)]
           t == drivers[a[1]].tokensByID[a[2]]
       IN /\ Len(last.str) > 2
          /\ SubSeq(last.str, 1, 2) = <<FormatInt(t.ID), Sep>>
          /\ HashToken(SubSeq(last.str, 3, Len(last.str))) = t.Token
          /\ Len(Split(last.str)) = 2

\* C21: a GetTokenInfo changes no driver and starts no last-used update; given
\* the string of an issued token that is not revoked and not past its expiry
\* it returns no error and the token's record, with the user id and the
\* joined abilities of its creation.
C21_GetTokenInfoReadsOnly ==
  [][(Returns /\ last'.op = "info")
       => /\ drivers' = drivers
          /\ touches' = touches
          /\ \A i \in issued :
               (/\ last'.raw = i.raw
                /\ ~last'.ctx
                /\ Digest(i.raw) \notin revoked
                /\ ~After(now, i.ExpiresAt))
               => (/\ last'.err = NoErr
                   /\ last'.tok.Token = Digest(i.raw)
                   /\ last'.tok.UserId = i.opts.UserId
                   /\ last'.tok.Abilities = Join(i.opts.Abilities))]_vars

\* C22: a CreateToken that found no storage driver in its configuration
\* returns ErrStorageDriverNil and no string, and stores no record in any
\* driver.
C22_NoStorageFails ==
  [][\A p \in Procs :
       (pc[p] = "install" /\ pc'[p] = "idle")
         => (/\ last'.err = ErrStorageDriverNil
             /\ last'.str = <<>>
             /\ AllRecords' = AllRecords
             /\ issued' = issued)]_vars

\* a stored record is past its expiry
ExpiredStored == \E t \in AllRecords : t.ExpiresAt # NilTime /\ After(now, t.ExpiresAt)

\* C23: whenever a stored record is past its expiry, a state follows in which
\* no stored record is past its expiry (RevokeToken cannot bring it about: it
\* fails on an expired token).
C23_ExpiredCleanedUp == ExpiredStored ~> ~ExpiredStored

\* C24: the secret generated for a client made with WithTokenLength(n),
\* n >= 16, is n characters long.
C24_SecretHasConfiguredLength ==
  (last.op = "generateTokenString" /\ last.err = NoErr)
    => Len(last.str) = last.client.TokenLength

\* C26: the client has no driver but the one NewClient chose, and every call
\* that is to read or write storage does so in that driver.
C26_OneStorageDriver ==
  /\ Len(drivers) = 1
  /\ \A p \in Procs :
       pc[p] \in {"store", "lookup", "check", "delete"} => config.Storage = ClientStorage

\* expired: the expiry is set and the time is past it
Expired(t, n) == t.ExpiresAt # NilTime /\ n > t.ExpiresAt

\* C27: for every record a driver holds and the time as it is, FindByID and
\* FindByHash of the memory driver and of the gorm driver and the validator's
\* own check each report "expired" exactly when the record's expiry is set
\* and the time is past it: not at the expiry time itself.
C27_ExpiryChecksAgree ==
  /\ \A id \in DOMAIN drivers[1].tokensByID :
       LET t == drivers[1].tokensByID[id]
       IN /\ (FindByID(drivers[1], id, now).err = ErrTokenExpired) = Expired(t, now)
          /\ (ValidateExpiry(t, now) = ErrTokenExpired) = Expired(t, now)
  /\ \A h \in DOMAIN drivers[1].tokensByHash :
       LET t == drivers[1].tokensByID[drivers[1].tokensByHash[h]]
       IN (FindByHash(drivers[1], h, now).err = ErrTokenExpired) = Expired(t, now)
  /\ \A id \in DOMAIN db.rows :
       LET t == db.rows[id]
       IN /\ (GormFindByID(db, id, now).err = ErrTokenExpired) = Expired(t, now)
          /\ (GormFindByHash(db, t.Token, now).err = ErrTokenExpired)
               = Expired(GormFirst(db, {i \in DOMAIN db.rows : db.rows[i].Token = t.Token}).tok,
                         now)
          /\ (ValidateExpiry(t, now) = ErrTokenExpired) = Expired(t, now)

\* both drivers have returned a record at the very time of its expiry
C27_Witness ==
  /\ last.op = "FindByHash"
  /\ last.mem.err = NoErr
  /\ last.gorm.err = NoErr
  /\ last.mem.tok.ExpiresAt = now
  /\ last.gorm.tok.ExpiresAt = now
  /\ ValidateExpiry(last.mem.tok, now) = NoErr

\* a record without its LastUsedAt
Created(t) == [t EXCEPT !.LastUsedAt = NilTime]

\* the id a TouchLastUsed that has just returned was given (<<>> when the
\* step is not the return of one)
TouchedId ==
  IF ~Returns THEN <<>>
  ELSE IF last'.op = "TouchLastUsed" THEN last'.raw
  ELSE IF last'.op = "touch" THEN <<FormatInt(last'.tok.ID)>>
  ELSE <<>>

\* C28: in every step a record that stays in a memory driver keeps its ID,
\* UserId, Token, Name, Abilities, CreatedAt and ExpiresAt; its LastUsedAt
\* changes only in the return of a TouchLastUsed given its id, and to the
\* time of that call; a TouchLastUsed adds and removes no record.
C28_TouchChangesOnlyLastUsed ==
  [][\A d \in 1..Len(drivers) :
       /\ \A id \in DOMAIN drivers[d].tokensByID \cap DOMAIN drivers'[d].tokensByID :
            LET old == drivers[d].tokensByID[id]
                new == drivers'[d].tokensByID[id]
            IN /\ Created(new) = Created(old)
               /\ new.LastUsedAt # old.LastUsedAt
                    => (TouchedId = <<FormatInt(id)>> /\ new.LastUsedAt = now)
       /\ TouchedId # <<>>
            => (/\ DOMAIN drivers'[d].tokensByID = DOMAIN drivers[d].tokensByID
                /\ drivers'[d].tokensByHash = drivers[d].tokensByHash
                /\ drivers'[d].nextID = drivers[d].nextID)]_vars

\* a TouchLastUsed has set one of two stored records' LastUsedAt and left the
\* other's unset
C28_Witness ==
  /\ last.op = "TouchLastUsed"
  /\ last.err = NoErr
  /\ \E i, j \in DOMAIN drivers[1].tokensByID :
       /\ last.raw = <<FormatInt(i)>>
       /\ drivers[1].tokensByID[i].LastUsedAt = now
       /\ drivers[1].tokensByID[j].LastUsedAt = NilTime

\* C29: a ValidateToken (also the one inside RevokeToken) that returns an
\* error changes no driver and starts no last-used goroutine, in the step in
\* which it returns and in every step before it: no step of a validation
\* before its expiry check changes a record or starts a last-used goroutine.
C29_FailedValidateChangesNothing ==
  [][/\ (Returns /\ last'.op \in {"validate", "revoke"} /\ last'.verr # NoErr)
          => (drivers' = drivers /\ touches' = touches)
     /\ \A p \in Procs :
          (/\ pc[p] \in {"idle", "defaults", "lookup"}
           /\ pc'[p] \in {"defaults", "lookup", "check"}
           /\ pc'[p] # pc[p])
            => (AllRecords' = AllRecords /\ touches' = touches)]_vars

\* C29 as first stated: a failed ValidateToken changes no driver and starts
\* no last-used goroutine, and no step advances the LastUsedAt of a record
\* that is past its expiry.
C29_ExpiredNeverTouched ==
  [][/\ (Returns /\ last'.op \in {"validate", "revoke"} /\ last'.verr # NoErr)
          => (drivers' = drivers /\ touches' = touches)
     /\ \A d \in 1..Len(drivers) :
          \A id \in DOMAIN drivers[d].tokensByID \cap DOMAIN drivers'[d].tokensByID :
            drivers'[d].tokensByID[id].LastUsedAt # drivers[d].tokensByID[id].LastUsedAt
              => ~Expired(drivers[d].tokensByID[id], now)]_vars

\* a ValidateToken has failed on an expired token whose record is still
\* stored, never used
C29_Witness ==
  /\ last.op = "validate"
  /\ last.err = ErrTokenExpired
  /\ \E t \in AllRecords : t.Token = Digest(last.raw) /\ t.LastUsedAt = NilTime
  /\ touches = EmptyBag

\* C30: in every memory driver the records tokensByHash points to are the
\* records tokensByID holds, each under its own Token and its own ID, and no
\* two records held have the same Token.
C30_IndicesAgree ==
  \A d \in 1..Len(drivers) :
    LET m == drivers[d]
    IN /\ {m.tokensByHash[h] : h \in DOMAIN m.tokensByHash} = DOMAIN m.tokensByID
       /\ \A h \in DOMAIN m.tokensByHash :
            /\ m.tokensByHash[h] \in DOMAIN m.tokensByID
            /\ m.tokensByID[m.tokensByHash[h]].Token = h
       /\ \A i \in DOMAIN m.tokensByID : m.tokensByID[i].ID = i
       /\ \A i, j \in DOMAIN m.tokensByID :
            m.tokensByID[i].Token = m.tokensByID[j].Token => i = j

\* the goroutines inside a method's critical section
Inside == {p \in Procs : pc[p] \in {"body", "return"}}

\* C31: while a goroutine is inside StoreToken, RevokeToken or TouchLastUsed
\* no other goroutine is inside any method of the driver; two goroutines are
\* inside together only in FindByHash and FindByID; the mutex is held by
\* exactly the goroutines inside, so that every return has released it.
C31_WritersExclude ==
  /\ \A p \in Inside : call[p].op \in Writes => Inside = {p}
  /\ drivers[1].mu.w = (\E p \in Inside : call[p].op \in Writes)
  /\ drivers[1].mu.r = Cardinality({p \in Inside : call[p].op \in Reads})

\* two lookups are inside the driver together
C31_Witness ==
  /\ Inside = Procs
  /\ \A p \in Procs : call[p].op \in Reads
  /\ drivers[1].mu.r = 2
  /\ drivers[1].tokensByID # <<>>

\* the digests of the records stored, in the memory drivers and the database
StoredDigests == {t.Token : t \in AllRecords \cup GormRecords(db)}

\* C32: a RevokeToken returns success for a token only if no RevokeToken has
\* returned success for it before, and then the token is stored nowhere: of
\* two calls racing on one token one at most succeeds.
C32_OneRevokeWins ==
  [][(Returns /\ last'.op = "revoke" /\ last'.err = NoErr)
       => (/\ Digest(last'.raw) \notin revoked
           /\ Digest(last'.raw) \notin StoredDigests')]_vars

\* C33: the run of a last-used goroutine started for token A adds no record
\* to any driver (a revoked A stays unfindable) and changes no record but
\* A's.
C33_TouchOnlyOwnRecord ==
  [][(Returns /\ last'.op = "touch")
       => \A d \in 1..Len(drivers) :
            /\ DOMAIN drivers'[d].tokensByHash = DOMAIN drivers[d].tokensByHash
            /\ DOMAIN drivers'[d].tokensByID = DOMAIN drivers[d].tokensByID
            /\ \A i \in DOMAIN drivers[d].tokensByID :
                 drivers'[d].tokensByID[i] # drivers[d].tokensByID[i]
                   => drivers[d].tokensByID[i].Token = last'.tok.Token]_vars

\* C34: in no step does the LastUsedAt of a record that stays in a memory
\* driver become earlier than it was (an unset one counts as earliest).
C34_LastUsedNeverDecreases ==
  [][\A d \in 1..Len(drivers) :
       \A id \in DOMAIN drivers[d].tokensByID \cap DOMAIN drivers'[d].tokensByID :
         drivers'[d].tokensByID[id].LastUsedAt >= drivers[d].tokensByID[id].LastUsedAt]_vars

\* a TouchLastUsed of the one stored record has returned, having set its
\* LastUsedAt, while another TouchLastUsed of that record, called at an
\* earlier time, still waits for the lock
C34_Witness ==
  /\ last.op = "TouchLastUsed"
  /\ last.err = NoErr
  /\ \E id \in DriverIds, q \in Procs :
       /\ DOMAIN drivers[1].tokensByID = {id}
       /\ drivers[1].tokensByID[id].LastUsedAt = now
       /\ pc[q] = "lock"
       /\ call[q].op = "TouchLastUsed"
       /\ call[q].arg = id
       /\ call[q].at < now

\* C35: a package-level ValidateToken or RevokeToken given the Config of
\* SetupGorm(db) reports "token not found" only when db has no record of the
\* token's digest, and succeeds only for a token db has a record of.
C35_LegacyUsesCfgStorage ==
  [][(Returns /\ last'.op \in {"validate", "revoke"} /\ WellFormed(last'.raw))
       => /\ last'.verr = ErrNotFound
               => Digest(last'.raw) \notin {t.Token : t \in GormRecords(db)}
          /\ (last'.op = "validate" /\ last'.err = NoErr)
               => Digest(last'.raw) \in {t.Token : t \in GormRecords(db)}]_vars

\* the client's signing key was made of the clock's reading
IsFallback(key) == \E t \in 0..MaxTime : key = FallbackKey(t)

\* C36: a CreateToken in which a read of crypto/rand failed returns no token
\* string, stores no record, and leaves the client with no key made from a
\* weaker source.
C36_RandFailureAborts ==
  [][(Returns /\ last'.op = "create"
        /\ (last'.keyRead = "failed" \/ last'.tokenRead = "failed"))
       => (/\ last'.str = <<>>
           /\ last'.err # NoErr
           /\ drivers' = drivers
           /\ ~IsFallback(config'.SigningKey))]_vars

\* C36, the generator alone: a CreateToken whose generateTokenString could
\* not read crypto/rand ends in the panic, with no string and no record.
C36_GeneratorAborts ==
  [][(Returns /\ last'.op = "create" /\ last'.tokenRead = "failed")
       => (/\ last'.str = <<>>
           /\ last'.err = PanicTokenGeneration
           /\ drivers' = drivers
           /\ issued' = issued)]_vars

\* a token string came back from a CreateToken whose client got its key from
\* the clock
C36_FallbackUsed ==
  /\ last.op = "create"
  /\ last.keyRead = "failed"
  /\ last.str # <<>>
  /\ IsFallback(config.SigningKey)

====
